---- MODULE Spec2Model ----
(***************************************************************************)
(* qstate core: typed query-string state.                                  *)
(*                                                                         *)
(* The document's query string is held as the list of (key, value) pairs   *)
(* that URLSearchParams keeps for it, in order.  createGetter,             *)
(* createSetter and subscribe are translated from packages/core (the       *)
(* source file src/unnamed/part_000); the browser is the environment: it   *)
(* owns the session history and, when it has one, the navigation event     *)
(* source.                                                                 *)
(***************************************************************************)
EXTENDS Integers, Sequences, FiniteSets, TLC

VARIABLES
    config,             \* the application's schema, constructed once
    url,                \* window.location.search as a URLSearchParams list
    nav,                \* window.navigation: "absent", "falsy" or "object"
    patched,            \* history.replaceState is the dispatching Proxy
    nativeListeners,    \* listeners of navigation's "navigatesuccess"
    syntheticListeners, \* listeners of window's "query-params-changed"
    thunks,             \* callbacks whose unsubscribe function was returned
    histLen,            \* number of entries of the session history
    last                \* what the last call did (for the properties)

vars == <<config, url, nav, patched, nativeListeners, syntheticListeners,
          thunks, histLen, last>>

----------------------------------------------------------------------------
(* Bounds of the model *)

\* callbacks are 1..NumCallbacks
NumCallbacks == 2
\* entries of the session history when the module is loaded
HistDepth == 2
\* Number() is tabulated for the decimal strings of 0..MaxNum
MaxNum == 3
\* longest update request (number of keys)
MaxReqLen == 3
\* dates are the instants 0..MaxMs milliseconds after the epoch
MaxMs == 2
\* longest list of names given to getSnapshot, beside getParamNames(config)
MaxNames == 3
\* longest request of a setter call that a subscriber answers with a call
\* of its own, and longest request of that call
MaxOuterLen == 2
MaxNestedLen == 1

Callbacks == 1..NumCallbacks

\* the elements of a sequence
Range(seq) == {seq[j] : j \in 1..Len(seq)}

----------------------------------------------------------------------------
(* JavaScript values.  One record shape for all of them, so that any two   *)
(* can be compared.                                                        *)

Value(t, n, s, b, l) == [t |-> t, n |-> n, s |-> s, b |-> b, l |-> l]
Undefined == Value("undefined", 0, "", FALSE, <<>>)
Null == Value("null", 0, "", FALSE, <<>>)
NaN == Value("NaN", 0, "", FALSE, <<>>)
Num(n) == Value("number", n, "", FALSE, <<>>)
Str(s) == Value("string", 0, s, FALSE, <<>>)
Bool(b) == Value("boolean", 0, "", b, <<>>)
List(l) == Value("array", 0, "", FALSE, l)
\* a valid Date, by its time value
Date(n) == Value("date", n, "", FALSE, <<>>)

\* ToBoolean: what `!!v`, `v || d` and `v && d` test
Truthy(v) ==
    CASE v.t = "undefined" -> FALSE
      [] v.t = "null" -> FALSE
      [] v.t = "NaN" -> FALSE
      [] v.t = "number" -> v.n # 0
      [] v.t = "string" -> v.s # ""
      [] v.t = "boolean" -> v.b
      [] OTHER -> TRUE

\* v ?? d
Nullish(v) == v.t \in {"undefined", "null"}

\* Number(s) for a string s: "" is 0, a decimal string is its number, and
\* anything else is NaN
Number(s) ==
    IF s = "" THEN Num(0)
    ELSE IF \E n \in 0..MaxNum : ToString(n) = s
         THEN Num(CHOOSE n \in 0..MaxNum : ToString(n) = s)
         ELSE NaN

\* Date.prototype.toISOString for an instant of the epoch's first second
Pad3(n) ==
    IF n < 10 THEN "00" \o ToString(n)
    ELSE IF n < 100 THEN "0" \o ToString(n)
    ELSE ToString(n)
ToISOString(n) == "1970-01-01T00:00:00." \o Pad3(n) \o "Z"

\* new Date(s).getTime(): the ISO date-time and date-only forms are parsed,
\* a string that is no date gives NaN
DateParse(s) ==
    IF \E n \in 0..MaxMs : ToISOString(n) = s
    THEN Num(CHOOSE n \in 0..MaxMs : ToISOString(n) = s)
    ELSE IF s = "1970-01-01" THEN Num(0)
    ELSE NaN

----------------------------------------------------------------------------
(* URLSearchParams *)

GetAll(params, name) ==
    LET hits == SelectSeq(params, LAMBDA p : p[1] = name)
    IN  [i \in 1..Len(hits) |-> hits[i][2]]

Delete(params, name) == SelectSeq(params, LAMBDA p : p[1] # name)

AppendAll(params, name, values) ==
    params \o [i \in 1..Len(values) |-> <<name, values[i]>>]

\* toString(): name=value joined by "&" (the names and values of the model
\* hold no character that is percent-encoded)
RECURSIVE Serialize(_)
Serialize(params) ==
    IF params = <<>> THEN ""
    ELSE params[1][1] \o "=" \o params[1][2] \o
         (IF Len(params) = 1 THEN "" ELSE "&" \o Serialize(Tail(params)))

\* where character ch is first in string s, 0 when it is not in s
FirstAt(s, ch) ==
    IF \E j \in 1..Len(s) : SubSeq(s, j, j) = ch
    THEN CHOOSE j \in 1..Len(s) :
             /\ SubSeq(s, j, j) = ch
             /\ \A k \in 1..(j - 1) : SubSeq(s, k, k) # ch
    ELSE 0

\* new URLSearchParams(s) for a string s: the fields between "&", each
\* split at its first "=", empty fields dropped
RECURSIVE ParseQuery(_)
ParseQuery(s) ==
    IF s = "" THEN <<>>
    ELSE LET amp == FirstAt(s, "&")
             field == IF amp = 0 THEN s ELSE SubSeq(s, 1, amp - 1)
             rest == IF amp = 0 THEN "" ELSE SubSeq(s, amp + 1, Len(s))
             eq == FirstAt(field, "=")
             pair == IF eq = 0 THEN <<field, "">>
                     ELSE <<SubSeq(field, 1, eq - 1),
                            SubSeq(field, eq + 1, Len(field))>>
         IN  (IF field = "" THEN <<>> ELSE <<pair>>) \o ParseQuery(rest)

----------------------------------------------------------------------------
(* The standard settings *)

StringDecoder(raw) == IF raw = <<>> THEN Undefined ELSE Str(raw[1])
StringEncoder(v) == <<v.s>>

\* a boolean decoder that gives undefined for no raw value
BooleanDecoderAbsentOnEmpty(raw) ==
    IF raw = <<>> THEN Undefined ELSE Bool(raw[1] = "true")

BooleanDecoder(raw) == Bool(raw # <<>> /\ raw[1] = "true")
BooleanEncoder(v) == <<IF v.b THEN "true" ELSE "false">>

NumberDecoder(raw) ==
    LET number == IF raw = <<>> THEN NaN ELSE Number(raw[1])
    IN  IF number.t = "NaN" THEN Undefined ELSE number
NumberEncoder(v) == <<ToString(v.n)>>

\* an encoder that writes the day only
DateEncoderDayOnly(v) == <<"1970-01-01">>

DateDecoder(raw) ==
    IF raw = <<>> \/ raw[1] = "" THEN Undefined
    ELSE LET time == DateParse(raw[1])
         IN  IF time.t = "NaN" THEN Undefined ELSE Date(time.n)
DateEncoder(v) == <<ToISOString(v.n)>>

StringArrayDecoder(raw) == IF Len(raw) # 0 THEN List(raw) ELSE Undefined
StringArrayEncoder(v) == v.l

Decoder(kind, raw) ==
    CASE kind = "string" -> StringDecoder(raw)
      [] kind = "boolean" -> BooleanDecoder(raw)
      [] kind = "number" -> NumberDecoder(raw)
      [] kind = "date" -> DateDecoder(raw)
      [] kind = "stringArray" -> StringArrayDecoder(raw)

Encoder(kind, v) ==
    CASE kind = "string" -> StringEncoder(v)
      [] kind = "boolean" -> BooleanEncoder(v)
      [] kind = "number" -> NumberEncoder(v)
      [] kind = "date" -> DateEncoder(v)
      [] kind = "stringArray" -> StringArrayEncoder(v)

----------------------------------------------------------------------------
(* Schemas: a config is the list of its entries, in Object.keys order *)

NoParamName == "<undefined>"

Setting(name, kind, paramName, defaultValue) ==
    [name |-> name, kind |-> kind, paramName |-> paramName,
     defaultValue |-> defaultValue]

\* setting.paramName ?? name
UsedName(setting) ==
    IF setting.paramName = NoParamName THEN setting.name
    ELSE setting.paramName

Names(cfg) == {cfg[i].name : i \in 1..Len(cfg)}

\* config[name]
Lookup(cfg, name) ==
    cfg[CHOOSE i \in 1..Len(cfg) : cfg[i].name = name]

\* { page: { ...numberSettings, defaultValue: 1 }, q: stringSettings }
PageQuery ==
    << Setting("page", "number", NoParamName, Num(1)),
       Setting("q", "string", NoParamName, Undefined) >>

\* page is carried by the wire key p
Aliased ==
    << Setting("page", "number", "p", Undefined),
       Setting("on", "boolean", NoParamName, Bool(TRUE)) >>

\* two keys carried by each other's name; tags is multi-valued
Swapped ==
    << Setting("q", "string", "page", Str("any")),
       Setting("page", "number", "q", Undefined),
       Setting("tags", "stringArray", NoParamName, Undefined) >>

Configs == {PageQuery, Aliased, Swapped}

\* the values an application sets a key of a kind to
Typed(kind) ==
    CASE kind = "string" -> {Str("hi")}
      [] kind = "boolean" -> {Bool(FALSE)}
      [] kind = "number" -> {Num(2)}
      [] kind = "stringArray" -> {List(<<"x", "y">>)}

Entry(name, value) == [name |-> name, value |-> value]

\* Partial<{ [key in keyof Config]: T | null }>, in every key order
RECURSIVE RequestsOver(_, _, _)
RequestsOver(cfg, names, n) ==
    IF n = 0 \/ names = {} THEN {<<>>}
    ELSE {<<>>} \cup
         UNION { { <<Entry(k, v)>> \o rest :
                     v \in {Null, Undefined} \cup Typed(Lookup(cfg, k).kind),
                     rest \in RequestsOver(cfg, names \ {k}, n - 1) }
                 : k \in names }

\* the requests of each schema
Requests == [cfg \in Configs |-> RequestsOver(cfg, Names(cfg), MaxReqLen)]

\* query strings the page is opened with, given to createGetter, or held by
\* the other entries of the session history
Queries ==
    { <<>>,
      << <<"q", "hi">>, <<"page", "1">> >>,
      << <<"page", "1">>, <<"q", "hi">> >>,
      << <<"q", "hi">> >>,
      << <<"page", "0">>, <<"q", "">> >>,
      << <<"page", "x">>, <<"on", "false">> >>,
      << <<"page", "1">>, <<"p", "3">>, <<"page", "2">> >>,
      << <<"tags", "a">>, <<"tags", "b">>, <<"on", "true">> >> }

----------------------------------------------------------------------------
(* createGetter *)

\* new URLSearchParams(queryString): no pairs when queryString is undefined
ParseArg(arg) == IF arg.defined THEN arg.q ELSE <<>>

\* the entry as `setting.decoder(value) ?? setting.defaultValue`: the decoder
\* runs on an absent key too
GetterEntryNoLengthCheck(setting, urlSearchParams) ==
    LET decoded == Decoder(setting.kind,
                           GetAll(urlSearchParams, UsedName(setting)))
    IN  IF Nullish(decoded) THEN setting.defaultValue ELSE decoded

\* (!!value.length && setting.decoder(value)) || setting.defaultValue
GetterEntry(setting, urlSearchParams) ==
    LET value == GetAll(urlSearchParams, UsedName(setting))
        decoded == IF Len(value) # 0 THEN Decoder(setting.kind, value)
                   ELSE Bool(FALSE)
    IN  IF Truthy(decoded) THEN decoded ELSE setting.defaultValue

\* the result, as the list of the values of config's keys
CreateGetter(cfg, arg) ==
    LET urlSearchParams == ParseArg(arg)
    IN  [i \in 1..Len(cfg) |-> GetterEntry(cfg[i], urlSearchParams)]

----------------------------------------------------------------------------
(* getSnapshot and getParamNames *)

\* getSnapshot's names argument
NoNames == [defined |-> FALSE, names |-> <<>>]
NamesArg(names) == [defined |-> TRUE, names |-> names]

\* the names of the schema's keys, paramName left aside
GetParamNamesUnaliased(cfg) == [i \in 1..Len(cfg) |-> cfg[i].name]

\* Object.keys(config).map((name) => config[name]?.paramName ?? name)
GetParamNames(cfg) == [i \in 1..Len(cfg) |-> UsedName(cfg[i])]

\* a loop that appends a key's values at every occurrence of the key
RECURSIVE SnapshotLoopAdditive(_, _, _, _)
SnapshotLoopAdditive(names, i, params, keys) ==
    IF i > Len(names) THEN keys
    ELSE SnapshotLoopAdditive(names, i + 1, params,
                              AppendAll(keys, names[i],
                                        GetAll(params, names[i])))

\* names.forEach: the key's values are read, the key is deleted from keys
\* and its values are appended
RECURSIVE SnapshotLoop(_, _, _, _)
SnapshotLoop(names, i, params, keys) ==
    IF i > Len(names) THEN keys
    ELSE SnapshotLoop(names, i + 1, params,
                      AppendAll(Delete(keys, names[i]), names[i],
                                GetAll(params, names[i])))

\* a snapshot that keeps the named pairs in the order of the query string
GetSnapshotInQueryOrder(arg, search) ==
    IF ~arg.defined THEN Serialize(search)
    ELSE Serialize(SelectSeq(search,
                             LAMBDA p : \E j \in 1..Len(arg.names) :
                                            arg.names[j] = p[1]))

\* a snapshot that, given no names, lists the keys in one fixed order
GetSnapshotKeysSorted(arg, search) ==
    Serialize(SnapshotLoop(IF arg.defined THEN arg.names
                           ELSE <<"on", "p", "page", "q", "tags">>,
                           1, search, <<>>))

\* getSnapshot(names) when window.location.search is search
GetSnapshot(arg, search) ==
    IF ~arg.defined THEN Serialize(search)
    ELSE Serialize(SnapshotLoop(arg.names, 1, search, <<>>))

\* the lists of at most n names over the keys S
RECURSIVE ListsUpTo(_, _)
ListsUpTo(S, n) ==
    IF n = 0 THEN {<<>>}
    ELSE {<<>>} \cup {<<k>> \o rest : k \in S, rest \in ListsUpTo(S, n - 1)}

\* what getSnapshot is called with under each schema: nothing,
\* getParamNames(config), or a list of names
NameArgs ==
    [cfg \in Configs |->
        {NoNames} \cup
        {NamesArg(names) :
            names \in {GetParamNames(cfg)}
                      \cup ListsUpTo({"page", "q"}, MaxNames)}]

----------------------------------------------------------------------------
(* The notification bus *)

Delivery(cb, seen, commit) == [cb |-> cb, seen |-> seen, commit |-> commit]

\* a dispatch that runs the newest listener first
DispatchNewestFirst(listeners, seen, commit) ==
    [j \in 1..Len(listeners) |->
        Delivery(listeners[Len(listeners) + 1 - j], seen, commit)]

\* dispatchEvent: every listener, in the order of the listener list, runs
\* and reads the query string of that moment
Dispatch(listeners, seen, commit) ==
    [j \in 1..Len(listeners) |-> Delivery(listeners[j], seen, commit)]

\* history.pushState in the place of replaceState: a new entry is added
PushState(st, newUrl) ==
    [st EXCEPT !.url = newUrl,
               !.depth = @ + 1,
               !.commits = @ + 1,
               !.delivered = IF patched
                             THEN @ \o Dispatch(syntheticListeners, newUrl,
                                                st.commits + 1)
                             ELSE @]

\* window.history.replaceState(state, unused, url) through the Proxy when it
\* is installed: the current entry's URL is replaced (the history keeps its
\* depth), then the event is dispatched
ReplaceState(st, newUrl) ==
    [st EXCEPT !.url = newUrl,
               !.commits = @ + 1,
               !.delivered = IF patched
                             THEN @ \o Dispatch(syntheticListeners, newUrl,
                                                st.commits + 1)
                             ELSE @]

----------------------------------------------------------------------------
(* createSetter *)

\* the body of Object.keys(newValues).forEach
\* a setter that writes its keys over the whole query string
SetterStepOverwrites(cfg, st, entry) ==
    IF entry.value = Null
    THEN [st EXCEPT !.params = Delete(@, entry.name)]
    ELSE IF entry.value = Undefined
    THEN st
    ELSE LET setting == Lookup(cfg, entry.name)
             usedName == UsedName(setting)
             encodedValue == Encoder(setting.kind, entry.value)
             params == AppendAll(<<>>, usedName, encodedValue)
         IN  ReplaceState([st EXCEPT !.params = params], params)

\* a step that appends the encoding without deleting the old values
SetterStepAppendOnly(cfg, st, entry) ==
    IF entry.value = Null
    THEN [st EXCEPT !.params = Delete(@, entry.name)]
    ELSE IF entry.value = Undefined
    THEN st
    ELSE LET setting == Lookup(cfg, entry.name)
             usedName == UsedName(setting)
             encodedValue == Encoder(setting.kind, entry.value)
             params == AppendAll(st.params, usedName, encodedValue)
         IN  ReplaceState([st EXCEPT !.params = params], params)

\* a step that takes undefined for a request to clear the key
SetterStepUndefinedClears(cfg, st, entry) ==
    IF entry.value = Null
    THEN [st EXCEPT !.params = Delete(@, entry.name)]
    ELSE LET setting == Lookup(cfg, entry.name)
             usedName == UsedName(setting)
             encodedValue == IF entry.value = Undefined THEN <<>>
                             ELSE Encoder(setting.kind, entry.value)
             params == AppendAll(Delete(st.params, usedName), usedName,
                                 encodedValue)
         IN  ReplaceState([st EXCEPT !.params = params], params)

SetterStep(cfg, st, entry) ==
    IF entry.value = Null
    THEN [st EXCEPT !.params = Delete(@, entry.name)]
    ELSE IF entry.value = Undefined
    THEN st
    ELSE LET setting == Lookup(cfg, entry.name)
             usedName == UsedName(setting)
             encodedValue == Encoder(setting.kind, entry.value)
             params == AppendAll(Delete(st.params, usedName), usedName,
                                 encodedValue)
         IN  ReplaceState([st EXCEPT !.params = params], params)

RECURSIVE SetterLoop(_, _, _, _)
SetterLoop(cfg, newValues, i, st) ==
    IF i > Len(newValues) THEN st
    ELSE SetterLoop(cfg, newValues, i + 1,
                    SetterStep(cfg, st, newValues[i]))

\* the setter's run from the current query string
RunSetter(newValues) ==
    SetterLoop(config, newValues, 1,
               [params |-> url, url |-> url, depth |-> histLen,
                commits |-> 0, delivered |-> <<>>])

----------------------------------------------------------------------------
(* Initial state: the module has just been loaded *)

NoArg == [defined |-> FALSE, q |-> <<>>]
Arg(q) == [defined |-> TRUE, q |-> q]

\* threw: the call ended with an exception; before: the listeners, in
\* order, when the call started; text: a string the call returned; names:
\* the names getSnapshot was given; nested: the request of the setter call
\* a subscriber made while it was notified; journal: what the setter calls
\* so far were asked for.  A call of one codec carries the kind and the
\* value in request's one entry.
Call(op, request, arg, cb, pre, commits, delivered, result) ==
    [op |-> op, request |-> request, arg |-> arg, cb |-> cb, pre |-> pre,
     commits |-> commits, delivered |-> delivered, result |-> result,
     threw |-> FALSE, before |-> <<>>, text |-> "", names |-> NoNames,
     nested |-> <<>>, journal |-> <<>>]

\* no call is running
Idle == Call("idle", <<>>, NoArg, 0, <<>>, 0, <<>>, <<>>)

\* createGetter's queryString argument
Args == {NoArg} \cup {Arg(q) : q \in Queries}

\* !("navigation" in window && !!window.navigation)
PolyfillNeeded(navigation) == navigation # "object"

Init ==
    /\ config \in Configs
    /\ url \in Queries
    /\ nav \in {"absent", "falsy", "object"}
    /\ patched = PolyfillNeeded(nav)
    /\ nativeListeners = <<>>
    /\ syntheticListeners = <<>>
    /\ thunks = {}
    /\ histLen = HistDepth
    /\ last = Idle

----------------------------------------------------------------------------
(* Actions *)

\* the host's navigatesuccess event: the host, not this library, fires it,
\* once the navigation has finished, which is after the script that
\* started it has returned; its listeners read the query string of then
NavigateSuccess(seen, commit) ==
    IF nav = "object" THEN Dispatch(nativeListeners, seen, commit) ELSE <<>>

\* createSetter(config)(newValues)
Setter(newValues) ==
    /\ last = Idle
    /\ LET st == RunSetter(newValues)
           after == IF st.commits > 0
                    THEN NavigateSuccess(st.url, st.commits)
                    ELSE <<>>
       IN  /\ url' = st.url
           /\ histLen' = st.depth
           /\ last' = Call("set", newValues, NoArg, 0, url, st.commits,
                           st.delivered \o after, <<>>)
    /\ UNCHANGED <<config, nav, patched, nativeListeners, syntheticListeners,
                   thunks>>

\* createGetter(config, queryString)
Getter(arg) ==
    /\ last = Idle
    /\ last' = Call("get", <<>>, arg, 0, url, 0, <<>>,
                    CreateGetter(config, arg))
    /\ UNCHANGED <<config, url, nav, patched, nativeListeners,
                   syntheticListeners, thunks, histLen>>

\* addEventListener: a listener already in the list is not added again
\* a registration that does not look for the callback in the list
AddListenerAgain(listeners, cb) == Append(listeners, cb)

AddListener(listeners, cb) ==
    IF \E j \in 1..Len(listeners) : listeners[j] = cb THEN listeners
    ELSE Append(listeners, cb)

\* a removal that drops the newest listener, whichever it is
RemoveNewestListener(listeners, cb) ==
    SubSeq(listeners, 1, Len(listeners) - 1)

RemoveListener(listeners, cb) == SelectSeq(listeners, LAMBDA c : c # cb)

\* "navigation" in window
InWindow(navigation) == navigation # "absent"

\* the listeners of both event sources, navigation's first
Listeners == nativeListeners \o syntheticListeners

\* subscribe(callback): with a navigation property, handleNavigationSubscribe
\* calls window.navigation.addEventListener, a TypeError when the property
\* holds no object; without one, handlePolyfillSubscribe
Subscribe(cb) ==
    /\ last = Idle
    /\ IF InWindow(nav)
       THEN IF nav = "object"
            THEN /\ nativeListeners' = AddListener(nativeListeners, cb)
                 /\ thunks' = thunks \cup {cb}
                 /\ last' = [Call("subscribe", <<>>, NoArg, cb, url, 0, <<>>,
                                  <<>>) EXCEPT !.before = Listeners]
                 /\ UNCHANGED syntheticListeners
            ELSE /\ last' = [Call("subscribe", <<>>, NoArg, cb, url, 0, <<>>,
                                  <<>>) EXCEPT !.before = Listeners,
                                               !.threw = TRUE]
                 /\ UNCHANGED <<nativeListeners, syntheticListeners, thunks>>
       ELSE /\ syntheticListeners' = AddListener(syntheticListeners, cb)
            /\ thunks' = thunks \cup {cb}
            /\ last' = [Call("subscribe", <<>>, NoArg, cb, url, 0, <<>>,
                             <<>>) EXCEPT !.before = Listeners]
            /\ UNCHANGED nativeListeners
    /\ UNCHANGED <<config, url, nav, patched, histLen>>

\* the function subscribe(callback) returned
Unsubscribe(cb) ==
    /\ last = Idle
    /\ cb \in thunks
    /\ IF InWindow(nav)
       THEN /\ nativeListeners' = RemoveListener(nativeListeners, cb)
            /\ UNCHANGED syntheticListeners
       ELSE /\ syntheticListeners' = RemoveListener(syntheticListeners, cb)
            /\ UNCHANGED nativeListeners
    /\ last' = [Call("unsubscribe", <<>>, NoArg, cb, url, 0, <<>>, <<>>)
                    EXCEPT !.before = Listeners]
    /\ UNCHANGED <<config, url, nav, patched, thunks, histLen>>

\* getSnapshot(names)
Snapshot(arg) ==
    /\ last = Idle
    /\ last' = [Call("snapshot", <<>>, NoArg, 0, url, 0, <<>>, <<>>)
                    EXCEPT !.names = arg,
                           !.text = GetSnapshot(arg, url)]
    /\ UNCHANGED <<config, url, nav, patched, nativeListeners,
                   syntheticListeners, thunks, histLen>>

\* useQueryParams(config) renders: the store's snapshot is
\* getSnapshot(getParamNames(config)) and parsedValues is
\* createGetter(config, storage)
Observe ==
    /\ last = Idle
    /\ LET names == NamesArg(GetParamNames(config))
           storage == GetSnapshot(names, url)
       IN  last' = [Call("observe", <<>>, NoArg, 0, url, 0, <<>>,
                         CreateGetter(config, Arg(ParseQuery(storage))))
                        EXCEPT !.names = names, !.text = storage]
    /\ UNCHANGED <<config, url, nav, patched, nativeListeners,
                   syntheticListeners, thunks, histLen>>

\* the user goes back or forward to an entry of this document whose query
\* string differs: the host fires popstate, and navigatesuccess when it has
\* a navigation object; nothing calls history.replaceState
Traverse(q) ==
    /\ last = Idle
    /\ histLen > 1
    /\ q # url
    /\ url' = q
    /\ last' = Call("traverse", <<>>, NoArg, 0, url, 0,
                    NavigateSuccess(q, 0), <<>>)
    /\ UNCHANGED <<config, nav, patched, nativeListeners, syntheticListeners,
                   thunks, histLen>>

\* the call has run to completion and control is back in the event loop:
\* the next call starts from there
Return ==
    /\ last # Idle
    /\ last' = Idle
    /\ UNCHANGED <<config, url, nav, patched, nativeListeners,
                   syntheticListeners, thunks, histLen>>

\* calls do not overlap: one starts when the one before has returned
Next ==
    \/ /\ last = Idle
       /\ \/ \E newValues \in Requests[config] : Setter(newValues)
          \/ \E arg \in Args : Getter(arg)
          \/ \E cb \in Callbacks : Subscribe(cb)
          \/ \E cb \in Callbacks : Unsubscribe(cb)
          \/ \E q \in Queries : Traverse(q)
          \/ \E arg \in NameArgs[config] : Snapshot(arg)
          \/ Observe
    \/ Return

Spec == Init /\ [][Next]_vars

----------------------------------------------------------------------------
(* The standard settings on their own: an application calls a setting's    *)
(* encoder and decoder directly                                            *)

Kinds == {"string", "boolean", "number", "date", "stringArray"}

\* values of each kind's type
ValuesOf(kind) ==
    CASE kind = "string" -> {Str(""), Str("hi"), Str("0"), Str("false")}
      [] kind = "boolean" -> {Bool(FALSE), Bool(TRUE)}
      [] kind = "number" -> {Num(n) : n \in 0..MaxNum}
      [] kind = "date" -> {Date(n) : n \in 0..MaxMs}
      [] kind = "stringArray" ->
            {List(<<>>), List(<<"x">>), List(<<"x", "y">>), List(<<"">>)}

\* raw value sequences a decoder is given
RawsOf(kind) ==
    {<<>>, <<"">>, <<"x">>, <<"true">>, <<"false">>, <<"false", "true">>}
    \cup (IF kind = "date"
          THEN {<<ToISOString(n)>> : n \in 0..MaxMs} \cup {<<"1970-01-01">>}
          ELSE {<<ToString(n)>> : n \in 0..MaxNum})

\* setting.decoder(setting.encoder(v))
RoundTrip(kind, v) ==
    /\ last = Idle
    /\ last' = Call("roundTrip", <<Entry(kind, v)>>, NoArg, 0, url, 0, <<>>,
                    <<Decoder(kind, Encoder(kind, v))>>)
    /\ UNCHANGED <<config, url, nav, patched, nativeListeners,
                   syntheticListeners, thunks, histLen>>

\* setting.decoder(raw)
Decode(kind, raw) ==
    /\ last = Idle
    /\ last' = Call("decode", <<Entry(kind, List(raw))>>, NoArg, 0, url, 0,
                    <<>>, <<Decoder(kind, raw)>>)
    /\ UNCHANGED <<config, url, nav, patched, nativeListeners,
                   syntheticListeners, thunks, histLen>>

CodecNext ==
    \/ /\ last = Idle
       /\ \/ \E kind \in Kinds : \E v \in ValuesOf(kind) : RoundTrip(kind, v)
          \/ \E kind \in Kinds : \E raw \in RawsOf(kind) : Decode(kind, raw)
    \/ Return

CodecSpec == Init /\ [][CodecNext]_vars

----------------------------------------------------------------------------
(* A subscriber that calls the setter while it is notified.  The Proxy     *)
(* dispatches one Event object, created once at module load, for every     *)
(* commit; dispatchEvent throws InvalidStateError for an event whose       *)
(* dispatch flag is set, that is, one that is being dispatched.            *)

OuterRequests == [cfg \in Configs |-> RequestsOver(cfg, Names(cfg), MaxOuterLen)]
NestedRequests ==
    [cfg \in Configs |-> RequestsOver(cfg, Names(cfg), MaxNestedLen)]

\* the setter called from a listener of the event: its first commit changes
\* the URL (originalFn.apply), then window.dispatchEvent(event) throws and
\* the exception ends the forEach, the setter and the listener
RECURSIVE NestedSetterLoop(_, _, _, _)
NestedSetterLoop(cfg, newValues, i, st) ==
    IF i > Len(newValues) \/ st.threw THEN st
    ELSE LET entry == newValues[i]
         IN  IF entry.value = Null
             THEN NestedSetterLoop(cfg, newValues, i + 1,
                      [st EXCEPT !.params = Delete(@, entry.name)])
             ELSE IF entry.value = Undefined
             THEN NestedSetterLoop(cfg, newValues, i + 1, st)
             ELSE LET setting == Lookup(cfg, entry.name)
                      usedName == UsedName(setting)
                      encodedValue == Encoder(setting.kind, entry.value)
                      params == AppendAll(Delete(st.params, usedName),
                                          usedName, encodedValue)
                  IN  [st EXCEPT !.params = params, !.url = params,
                                 !.commits = 1, !.threw = TRUE]

\* history.replaceState through the Proxy, with listener r calling the
\* setter with request nested when it is invoked.  Commits are numbered in
\* the order they happen; the listeners behind r run after r's call and
\* read the URL it left.
ReentrantReplaceState(st, newUrl, r, nested) ==
    LET commit == st.commits + 1
        pos == CHOOSE j \in 1..Len(syntheticListeners) :
                   syntheticListeners[j] = r
        inner == NestedSetterLoop(config, nested, 1,
                     [params |-> newUrl, url |-> newUrl, commits |-> 0,
                      threw |-> FALSE])
    IN  [st EXCEPT !.url = inner.url,
                   !.commits = commit + inner.commits,
                   !.threw = @ \/ inner.threw,
                   !.delivered = @ \o
                       [j \in 1..Len(syntheticListeners) |->
                           Delivery(syntheticListeners[j],
                                    IF j <= pos THEN newUrl ELSE inner.url,
                                    commit)]]

\* the body of the outer setter's forEach
ReentrantStep(cfg, st, entry, r, nested) ==
    IF entry.value = Null
    THEN [st EXCEPT !.params = Delete(@, entry.name)]
    ELSE IF entry.value = Undefined
    THEN st
    ELSE LET setting == Lookup(cfg, entry.name)
             usedName == UsedName(setting)
             encodedValue == Encoder(setting.kind, entry.value)
             params == AppendAll(Delete(st.params, usedName), usedName,
                                 encodedValue)
         IN  ReentrantReplaceState([st EXCEPT !.params = params], params,
                                   r, nested)

RECURSIVE ReentrantLoop(_, _, _, _, _, _)
ReentrantLoop(cfg, newValues, i, st, r, nested) ==
    IF i > Len(newValues) THEN st
    ELSE ReentrantLoop(cfg, newValues, i + 1,
                       ReentrantStep(cfg, st, newValues[i], r, nested),
                       r, nested)

\* createSetter(config)(newValues) under the fallback strategy, subscriber r
\* answering every notification with createSetter(config)(nested)
Reenter(newValues, r, nested) ==
    /\ last = Idle
    /\ patched
    /\ r \in Range(syntheticListeners)
    /\ LET st == ReentrantLoop(config, newValues, 1,
                      [params |-> url, url |-> url, depth |-> histLen,
                       commits |-> 0, delivered |-> <<>>, threw |-> FALSE],
                      r, nested)
       IN  /\ url' = st.url
           /\ histLen' = st.depth
           /\ last' = [Call("reenter", newValues, NoArg, r, url, st.commits,
                            st.delivered, <<>>)
                           EXCEPT !.threw = st.threw,
                                  !.nested = nested,
                                  !.before = Listeners]
    /\ UNCHANGED <<config, nav, patched, nativeListeners, syntheticListeners,
                   thunks>>

NestedNext ==
    \/ /\ last = Idle
       /\ \/ \E cb \in Callbacks : Subscribe(cb)
          \/ \E cb \in Callbacks : Unsubscribe(cb)
          \/ \E newValues \in OuterRequests[config] :
                 \E r \in Callbacks :
                     \E nested \in NestedRequests[config] :
                         Reenter(newValues, r, nested)
    \/ Return

NestedSpec == Init /\ [][NestedNext]_vars

----------------------------------------------------------------------------
(* Setter calls of several schemas on one URL, every value set.  The calls *)
(* follow each other, and a journal of what they asked for is kept from    *)
(* call to call.                                                           *)

\* the requests that set every key they name
SetRequests ==
    [cfg \in Configs |->
        {r \in Requests[cfg] :
            \A j \in 1..Len(r) : r[j].value # Null /\ r[j].value # Undefined}]

\* the journal at the first call: the URL the page was opened with and no
\* key asked for
NewJournal(search) == [initial |-> search, written |-> <<>>]

\* the journal with one entry's wire key and encoding put in the place of
\* what was asked for that key before
Noted(journal, cfg, entry) ==
    LET setting == Lookup(cfg, entry.name)
    IN  [journal EXCEPT
            !.written = AppendAll(Delete(@, UsedName(setting)),
                                  UsedName(setting),
                                  Encoder(setting.kind, entry.value))]

RECURSIVE NotedAll(_, _, _, _)
NotedAll(journal, cfg, newValues, i) ==
    IF i > Len(newValues) THEN journal
    ELSE NotedAll(Noted(journal, cfg, newValues[i]), cfg, newValues, i + 1)

\* createSetter(cfg)(newValues), cfg being any of the schemas; nobody is
\* subscribed, and of the call the journal alone is recorded
Merge(cfg, newValues) ==
    /\ last.op \in {"idle", "merge"}
    /\ LET st == SetterLoop(cfg, newValues, 1,
                      [params |-> url, url |-> url, depth |-> histLen,
                       commits |-> 0, delivered |-> <<>>])
           journal == IF last.op = "merge" THEN last.journal
                      ELSE NewJournal(url)
       IN  /\ url' = st.url
           /\ histLen' = st.depth
           /\ last' = [Call("merge", <<>>, NoArg, 0, <<>>, 0, <<>>, <<>>)
                           EXCEPT !.journal =
                               NotedAll(journal, cfg, newValues, 1)]
    /\ UNCHANGED <<config, nav, patched, nativeListeners, syntheticListeners,
                   thunks>>

MergeNext ==
    \E cfg \in Configs : \E newValues \in SetRequests[cfg] :
        Merge(cfg, newValues)

MergeSpec == Init /\ [][MergeNext]_vars

----------------------------------------------------------------------------
(* Properties *)

\* the callbacks subscribed now
Subscribers == Range(nativeListeners) \cup Range(syntheticListeners)

\* how many times the last call invoked cb
Broadcasts(cb) ==
    Cardinality({j \in 1..Len(last.delivered) : last.delivered[j].cb = cb})

\* the wire key and the raw values of config's i-th key in the query string
\* the last createGetter call decoded
WireKey(name) == UsedName(Lookup(config, name))
RawOf(i) == GetAll(ParseArg(last.arg), UsedName(config[i]))
DecodedOf(i) == Decoder(config[i].kind, RawOf(i))

\* the entries of the last request that set a value
IsSet(entry) == entry.value # Null /\ entry.value # Undefined
Encoded(entry) == Encoder(Lookup(config, entry.name).kind, entry.value)

\* the wire keys the last request's keys resolve to
Referenced == {WireKey(e.name) : e \in Range(last.request)}

\* query string q holds everything the last request asks for
Reflects(q) ==
    \A e \in Range(last.request) :
        /\ e.value = Null => GetAll(q, WireKey(e.name)) = <<>>
        /\ IsSet(e) => GetAll(q, WireKey(e.name)) = Encoded(e)

\* C1: createGetter returns the decoder's result for every key whose raw
\* values are non-empty and decode to a defined, non-null value, falsy ones
\* (0, false, "") included, with or without a defaultValue.
C1_DecodedValueIsUsed ==
    last.op = "get" =>
        \A i \in 1..Len(config) :
            (RawOf(i) # <<>> /\ ~Nullish(DecodedOf(i)))
                => last.result[i] = DecodedOf(i)

\* C2: a setter call whose request holds only null values is committed: the
\* keys without paramName it names are gone from the current URL.
C2_NullOnlyRequestIsCommitted ==
    (/\ last.op = "set"
     /\ last.request # <<>>
     /\ \A e \in Range(last.request) : e.value = Null)
        => \A e \in Range(last.request) :
               Lookup(config, e.name).paramName = NoParamName
                   => GetAll(url, e.name) = <<>>

\* C3: a setter call that commits broadcasts exactly once to each current
\* subscriber, however many keys the request sets.
C3_OneBroadcastPerCall ==
    (last.op = "set" /\ last.commits >= 1)
        => \A cb \in Subscribers : Broadcasts(cb) = 1

\* C4: whenever a setter call notifies a subscriber, the URL the subscriber
\* reads already holds the complete request, every key of it.
C4_BroadcastSeesWholeRequest ==
    last.op = "set" =>
        \A j \in 1..Len(last.delivered) : Reflects(last.delivered[j].seen)

\* C5: after a setter call, the wire key of every request entry with a
\* defined, non-null value holds exactly the encoder's output for it.
C5_SetKeyHoldsEncoding ==
    last.op = "set" =>
        \A e \in Range(last.request) :
            IsSet(e) => GetAll(url, WireKey(e.name)) = Encoded(e)

\* the pairs of q whose key no key of the last request resolves to
Unreferenced(q) == SelectSeq(q, LAMBDA p : p[1] \notin Referenced)

\* C6: a setter call leaves every wire key that no key of the request
\* resolves to as it was: same values, same relative order.
C6_UnreferencedKeysUntouched ==
    last.op = "set" => Unreferenced(url) = Unreferenced(last.pre)

\* C7: null for a key with a paramName removes the alias: once the update is
\* committed the URL has no occurrence of the alias, and a parameter that
\* only has the logical key's name is still there.
C7_NullRemovesAlias ==
    (last.op = "set" /\ last.commits >= 1) =>
        \A e \in Range(last.request) :
            (e.value = Null /\ Lookup(config, e.name).paramName # NoParamName)
                => /\ GetAll(url, WireKey(e.name)) = <<>>
                   /\ e.name \notin Referenced
                        => GetAll(url, e.name) = GetAll(last.pre, e.name)

\* C8: createGetter without a query string decodes the current location's
\* query string.
C8_GetterDefaultsToLocation ==
    (last.op = "get" /\ ~last.arg.defined)
        => last.result = CreateGetter(config, Arg(url))

\* C9: decoding is resolved per key: a key whose wire key is absent, or whose
\* decoder yields undefined, gets its defaultValue; every key gets a value,
\* and it is the value the key gets when decoded alone.
C9_AbsentOrUndecodableGetsDefault ==
    last.op = "get" =>
        /\ Len(last.result) = Len(config)
        /\ \A i \in 1..Len(config) :
            /\ (RawOf(i) = <<>> \/ DecodedOf(i) = Undefined)
                  => last.result[i] = config[i].defaultValue
            /\ last.result[i] = CreateGetter(<<config[i]>>, last.arg)[1]

\* C9's cases: { page: number(default 1), q: string } on "q=hi" yields
\* { page: 1, q: "hi" }, and an undecodable page yields the default too
C9_Witness ==
    /\ last.op = "get"
    /\ config = PageQuery
    /\ \/ /\ last.arg = Arg(<< <<"q", "hi">> >>)
          /\ last.result = <<Num(1), Str("hi")>>
       \/ /\ last.arg = Arg(<< <<"page", "x">>, <<"on", "false">> >>)
          /\ last.result = <<Num(1), Undefined>>

\* C10: a back/forward navigation that changes the query string is broadcast
\* to every subscriber, under the native and under the fallback strategy.
C10_TraversalIsBroadcast ==
    last.op = "traverse" => \A cb \in Subscribers : Broadcasts(cb) >= 1

\* the callbacks one dispatch of the last call invoked, in order
InvokedBy(commit) ==
    LET ds == SelectSeq(last.delivered, LAMBDA d : d.commit = commit)
    IN  [j \in 1..Len(ds) |-> ds[j].cb]

\* listeners without cb, order kept
Others(listeners, cb) == SelectSeq(listeners, LAMBDA c : c # cb)

\* C11: one strategy is selected at module load and every subscribe attaches
\* the callback to that strategy's event source (the synthetic event when
\* history.replaceState was instrumented, navigatesuccess otherwise); a
\* navigation property that is present but falsy does not change that.
C11_SubscribeUsesLoadTimeStrategy ==
    last.op = "subscribe" =>
        /\ ~last.threw
        /\ last.cb \in Range(IF patched THEN syntheticListeners
                                         ELSE nativeListeners)

\* C12: unsubscribe never throws, leaves cb unsubscribed, keeps the other
\* subscribers in place, changes nothing when cb was not subscribed (a
\* second call), and a broadcast reaches subscribed callbacks only.
C12_UnsubscribeIsIdempotent ==
    /\ last.op = "unsubscribe" =>
            /\ ~last.threw
            /\ last.cb \notin Subscribers
            /\ Others(Listeners, last.cb) = Others(last.before, last.cb)
            /\ last.cb \notin Range(last.before) => Listeners = last.before
            /\ url = last.pre
    /\ \A j \in 1..Len(last.delivered) : last.delivered[j].cb \in Subscribers

C12_Witness ==
    /\ last.op = "unsubscribe"
    /\ last.cb \notin Range(last.before)
    /\ last.before # <<>>

\* C13: every dispatch invokes the subscribed callbacks in the order they
\* were registered: a new callback is registered behind the ones there, and
\* an unsubscribe keeps the order of the others.
C13_DeliveryInRegistrationOrder ==
    /\ \A c \in 0..last.commits :
            InvokedBy(c) # <<>> => InvokedBy(c) = Listeners
    /\ (last.op = "subscribe" /\ ~last.threw) =>
            Listeners = IF last.cb \in Range(last.before) THEN last.before
                        ELSE Append(last.before, last.cb)
    /\ last.op = "unsubscribe" =>
            Others(Listeners, last.cb) = Others(last.before, last.cb)

C13_Witness ==
    /\ last.op \in {"set", "traverse"}
    /\ Len(Listeners) = 2
    /\ Listeners[1] = 2
    /\ last.delivered # <<>>

\* C14: a request applied to the query string it produced leaves that query
\* string as it is, for every schema, query string and request.
C14_SetterIsIdempotent ==
    last.op = "set" => RunSetter(last.request).url = url

C14_Witness ==
    /\ last.op = "set"
    /\ last.commits >= 2
    /\ url # last.pre
    /\ \E e \in Range(last.request) : e.value = Null

\* C15: the history keeps the depth it had at load, whatever setter calls
\* were made.
C15_HistoryDepthUnchanged == histLen = HistDepth

C15_Witness ==
    /\ last.op = "set"
    /\ last.commits >= 2
    /\ url # last.pre
    /\ histLen = HistDepth

\* the pairs of the named keys of a query string, key by key in names order
RECURSIVE InNamesOrder(_, _)
InNamesOrder(names, params) ==
    IF names = <<>> THEN <<>>
    ELSE AppendAll(<<>>, names[1], GetAll(params, names[1]))
         \o InNamesOrder(Tail(names), params)

NoRepetition(names) ==
    \A j, k \in 1..Len(names) : names[j] = names[k] => j = k

\* getSnapshot of each query string of Queries, for every names argument
SnapshotsOf ==
    [q \in Queries |->
        [arg \in UNION {NameArgs[cfg] : cfg \in Configs} |->
            GetSnapshot(arg, q)]]

\* C16: getSnapshot(names) of two query strings is equal exactly when every
\* named key has the same value sequence in both, whatever the order of the
\* keys in the query strings and whatever the other keys; the keys come in
\* the order of names.
C16_SnapshotOfNamedKeys ==
    (last.op = "snapshot" /\ last.names.defined) =>
        /\ \A q \in Queries :
               (SnapshotsOf[q][last.names] = last.text)
               <=> (\A n \in Range(last.names.names) :
                        GetAll(q, n) = GetAll(url, n))
        /\ NoRepetition(last.names.names) =>
               last.text = Serialize(InNamesOrder(last.names.names, url))

C16_Witness ==
    /\ last.op = "snapshot"
    /\ last.names = NamesArg(<<"page", "q">>)
    /\ url # <<>> /\ url[1][1] = "q"
    /\ \E j \in 1..Len(url) : url[j][1] \notin {"page", "q"}
    /\ \E q \in Queries : q # url /\ GetSnapshot(last.names, q) = last.text
    /\ \E q \in Queries : GetSnapshot(last.names, q) # last.text

\* the keys of a query string
KeysOf(params) == {params[j][1] : j \in 1..Len(params)}

\* two query strings hold the same multi-valued key/value sets
SameValues(p, q) ==
    /\ KeysOf(p) = KeysOf(q)
    /\ \A k \in KeysOf(p) : GetAll(p, k) = GetAll(q, k)

\* C17 (as claimed): getSnapshot() is equal for two query strings that hold
\* the same multi-valued key/value sets, whatever the order of the keys.
C17_SnapshotIsOrderIndependent ==
    (last.op = "snapshot" /\ ~last.names.defined) =>
        \A q \in Queries :
            SameValues(q, url) => GetSnapshot(NoNames, q) = last.text

\* C17 (amended): getSnapshot() is the query string re-serialized in its own
\* order: it is equal for two query strings exactly when they hold the same
\* pairs in the same order.
C17_SnapshotKeepsQueryOrder ==
    (last.op = "snapshot" /\ ~last.names.defined) =>
        \A q \in Queries : (GetSnapshot(NoNames, q) = last.text) <=> (q = url)

C17_Witness ==
    /\ last.op = "snapshot"
    /\ ~last.names.defined
    /\ \E q \in Queries :
           q # url /\ SameValues(q, url) /\ GetSnapshot(NoNames, q) # last.text

\* the last request sets, clears and commits nothing
NoOp == \A e \in Range(last.request) : e.value = Undefined

\* C18: a request whose values are all undefined, the empty request
\* included, leaves every snapshot as it was, and a snapshot call leaves the
\* query string alone, so that its repetition returns the same string.
\* (Snapshots of one query string are equal; they are compared when the
\* query string is not the one before the call.)
C18_NoOpKeepsSnapshot ==
    /\ (last.op = "set" /\ NoOp) =>
            \/ url = last.pre
            \/ \A arg \in NameArgs[config] :
                   GetSnapshot(arg, url) = GetSnapshot(arg, last.pre)
    /\ last.op = "snapshot" =>
            /\ url = last.pre
            /\ GetSnapshot(last.names, url) = last.text

C18_Witness ==
    /\ last.op = "set"
    /\ NoOp
    /\ \E e \in Range(last.request) : GetAll(url, WireKey(e.name)) # <<>>

\* the values the round trip is claimed for
Representable(kind, v) ==
    CASE kind = "string" -> v.s # ""
      [] kind = "number" -> v.t = "number"
      [] kind = "date" -> v.t = "date"
      [] kind = "stringArray" -> v.l # <<>>
      [] OTHER -> FALSE

\* C19: decoder(encoder(v)) = v for the string, number, date and string-list
\* settings and every non-empty string, number, valid date and non-empty
\* list v.
C19_RoundTrip ==
    (/\ last.op = "roundTrip"
     /\ Representable(last.request[1].name, last.request[1].value)) =>
        last.result[1] = last.request[1].value

C19_Witness ==
    /\ last.op = "roundTrip"
    /\ last.request[1].name = "date"
    /\ last.request[1].value = Date(MaxMs)
    /\ last.result[1] = Date(MaxMs)

\* C20 (as claimed): the boolean decoder returns false for the raw value
\* "false" and undefined for an empty raw-value sequence.
C20_BooleanDecoderAbsentOnEmpty ==
    (last.op = "decode" /\ last.request[1].name = "boolean") =>
        /\ last.request[1].value.l = <<"false">> => last.result[1] = Bool(FALSE)
        /\ last.request[1].value.l = <<>> => last.result[1] = Undefined

\* C20 (amended): the boolean decoder returns false for the raw value
\* "false", and false as well, not undefined, for an empty raw-value
\* sequence.
C20_BooleanDecoderFalseOnEmpty ==
    (last.op = "decode" /\ last.request[1].name = "boolean") =>
        /\ last.request[1].value.l = <<"false">> => last.result[1] = Bool(FALSE)
        /\ last.request[1].value.l = <<>> => last.result[1] = Bool(FALSE)

C20_Witness ==
    /\ last.op = "decode"
    /\ last.request[1].name = "boolean"
    /\ last.request[1].value.l = <<>>
    /\ last.result[1] = Bool(FALSE)

\* how many times the last call invoked cb for the commit numbered c
BroadcastsOf(c, cb) ==
    Cardinality({j \in 1..Len(last.delivered) :
                    last.delivered[j].commit = c /\ last.delivered[j].cb = cb})

\* C21: under the fallback strategy a commit made by a subscriber while it
\* is notified raises no error, and every commit, that one included, is
\* broadcast exactly once to every subscriber.
C21_NestedCommitIsBroadcast ==
    last.op = "reenter" =>
        /\ ~last.threw
        /\ \A c \in 1..last.commits :
               \A cb \in Subscribers : BroadcastsOf(c, cb) = 1

\* the wire keys of the schemas and of the query strings
AllKeys == {"page", "q", "p", "on", "tags"}

\* C22: after any sequence of setter calls, of any schemas, whose values are
\* all set, every wire key a request referenced holds the encoding of the
\* value set last for it, and every other wire key holds the value sequence
\* the URL had at first.
C22_SettersMergeIntoLiveUrl ==
    last.op = "merge" =>
        \A k \in AllKeys :
            GetAll(url, k) =
                IF k \in KeysOf(last.journal.written)
                THEN GetAll(last.journal.written, k)
                ELSE GetAll(last.journal.initial, k)

C22_Witness ==
    /\ last.op = "merge"
    /\ {"p", "page", "q"} \subseteq KeysOf(last.journal.written)
    /\ GetAll(url, "page") = <<"hi">>
    /\ GetAll(last.journal.initial, "on") = <<"true">>
    /\ GetAll(url, "on") = <<"true">>
    /\ "on" \notin KeysOf(last.journal.written)

\* names without the occurrences of a key that another one follows
RECURSIVE KeepLast(_)
KeepLast(names) ==
    IF names = <<>> THEN <<>>
    ELSE IF \E j \in 2..Len(names) : names[j] = names[1]
         THEN KeepLast(Tail(names))
         ELSE <<names[1]>> \o KeepLast(Tail(names))

\* C23: a wire key that occurs more than once in names is in the snapshot
\* with its value sequence once, at the place of its last occurrence.
C23_RepeatedNameCountsOnce ==
    (last.op = "snapshot" /\ last.names.defined) =>
        last.text = Serialize(InNamesOrder(KeepLast(last.names.names), url))

C23_Witness ==
    /\ last.op = "snapshot"
    /\ last.names = NamesArg(<<"page", "q", "page">>)
    /\ Len(GetAll(url, "page")) = 2
    /\ GetAll(url, "q") # <<>>

\* the URL the setter leaves when it is given request from query string
\* search
LeftBy(request, search) ==
    SetterLoop(config, request, 1,
               [params |-> search, url |-> search, depth |-> histLen,
                commits |-> 0, delivered |-> <<>>]).url

\* the requests with the entries of the last one, in every order
Reordered ==
    {r \in Requests[config] :
        Len(r) = Len(last.request) /\ Range(r) = Range(last.request)}

\* C24: a request whose keys have distinct wire keys leaves the URL with the
\* same wire keys and the same value sequence for each, in whatever order
\* its keys are enumerated, null values included.
C24_KeyOrderDoesNotMatter ==
    (/\ last.op = "set"
     /\ \A j, k \in 1..Len(last.request) :
            WireKey(last.request[j].name) = WireKey(last.request[k].name)
                => j = k) =>
        \A r \in Reordered : SameValues(LeftBy(r, last.pre), url)

\* C25: the values decoded from getSnapshot(getParamNames(config)) are the
\* values decoded from the query string itself, so that two query strings
\* with one snapshot decode to the same values.
C25_SnapshotDecodesAsUrl ==
    last.op = "observe" =>
        /\ last.result = CreateGetter(config, Arg(url))
        /\ \A q \in Queries :
               GetSnapshot(last.names, q) = last.text
                   => CreateGetter(config, Arg(q)) = last.result

C25_Witness ==
    /\ last.op = "observe"
    /\ config = Aliased
    /\ url = << <<"page", "1">>, <<"p", "3">>, <<"page", "2">> >>
    /\ last.text = "p=3"
    /\ last.result[1] = Num(3)

\* C26: a callback passed to subscribe again is not registered a second
\* time: it is in the listener list once, every broadcast invokes it once,
\* and one call of an unsubscribe function leaves it unsubscribed.
C26_SubscriptionIsByIdentity ==
    /\ (last.op = "subscribe" /\ ~last.threw
            /\ last.cb \in Range(last.before)) => Listeners = last.before
    /\ \A j, k \in 1..Len(Listeners) : Listeners[j] = Listeners[k] => j = k
    /\ \A c \in 0..last.commits :
           \A cb \in Callbacks : BroadcastsOf(c, cb) <= 1
    /\ last.op = "unsubscribe" => last.cb \notin Range(Listeners)

C26_Witness ==
    /\ last.op = "subscribe"
    /\ last.cb \in Range(last.before)
    /\ Len(last.before) = 2
    /\ Listeners = last.before

====
